---- MODULE Spec2Model ----
(***************************************************************************)
(* CRM WhatsApp Artisans (app/main.py, app/models.py, app/database.py).    *)
(*                                                                         *)
(* The store is the three tables contact, deal and message.  Primary keys  *)
(* are autoincremented and no handler deletes a row, so a table is a       *)
(* sequence and a row's id is its position.                                *)
(*                                                                         *)
(* Text that the code strips, truncates or tests for a prefix is kept as   *)
(* a run-length encoded string: a sequence of runs [c, n] (n copies of the *)
(* character c, adjacent runs of different characters, n > 0).  The        *)
(* encoding is exact, so s[:200], s.strip() and s.startswith("+") are      *)
(* computed, not assumed.                                                  *)
(***************************************************************************)
EXTENDS Integers, Sequences, FiniteSets, TLC

VARIABLES contacts, deals, messages, now, wa_configured, last, served, req,
          schema

vars == <<contacts, deals, messages, now, wa_configured, last, served, req,
          schema>>

store == <<contacts, deals, messages>>

\* ---------------------------------------------------------------- bounds
\* requests served in one run
MaxServed == 3

\* starts of the application on one database
MaxStartups == 2

\* ------------------------------------------------------- program constants
PreviewLen == 200
ContentLen == 4000

None == "None"

\* DealStatus
DealStatus_NEW == "new"
DealStatus_QUOTE == "quote"
DealStatus_SCHEDULED == "scheduled"
DealStatus_CLOSED == "closed"

\* ContactType
ContactType_CLIENT == "client"
ContactType_PROSPECT == "prospect"

\* MessageDirection
MessageDirection_INBOUND == "in"
MessageDirection_OUTBOUND == "out"

StatusSet == {DealStatus_NEW, DealStatus_QUOTE, DealStatus_SCHEDULED, DealStatus_CLOSED}

\* ----------------------------------------------------------------- strings
Run(c, n) == [c |-> c, n |-> n]

\* Python's None where a string of runs is expected (no string has a run of 0)
NoStr == <<Run("None", 0)>>

\* Python's None where a timestamp is expected
NoTime == 0 - 1

Lit(c) == <<Run(c, 1)>>

Rep(c, n) == <<Run(c, n)>>

Empty == << >>

\* a + b
Concat(a, b) ==
    IF a = << >> THEN b
    ELSE IF b = << >> THEN a
    ELSE IF a[Len(a)].c = b[1].c
         THEN SubSeq(a, 1, Len(a) - 1)
                  \o <<Run(b[1].c, a[Len(a)].n + b[1].n)>> \o Tail(b)
         ELSE a \o b

\* s[:k]
RECURSIVE Take(_, _)
Take(s, k) ==
    IF s = << >> \/ k <= 0 THEN << >>
    ELSE IF Head(s).n >= k THEN <<Run(Head(s).c, k)>>
    ELSE <<Head(s)>> \o Take(Tail(s), k - Head(s).n)

\* s.strip()
Strip(s) ==
    LET l == IF s # << >> /\ s[1].c = " " THEN Tail(s) ELSE s
    IN  IF l # << >> /\ l[Len(l)].c = " " THEN SubSeq(l, 1, Len(l) - 1) ELSE l

\* s.startswith(c)
StartsWith(s, c) == s # << >> /\ s[1].c = c

\* Python truthiness of an optional string
Truthy(s) == s # NoStr /\ s # Empty

\* (x or None) on a form field
OrNone(s) == IF s = "" THEN None ELSE s

\* ------------------------------------------------------------------- rows
\* models.Contact
Contact(type, name, phone, email, company, address, tags) ==
    [type |-> type, name |-> name, phone |-> phone, email |-> email,
     company |-> company, address |-> address, tags |-> tags]

\* models.Deal; amount_estimated and the last_message_* columns default to None
Deal(title, contact_id, status) ==
    [title |-> title, contact_id |-> contact_id, status |-> status,
     amount_estimated |-> None, last_message_preview |-> NoStr,
     last_message_channel |-> None, last_message_at |-> NoTime]

\* models.Message (created_at, which only the dashboard's ORDER BY reads, is
\* left out: rows are kept in insertion order)
Message(deal_id, direction, content, channel) ==
    [deal_id |-> deal_id, direction |-> direction, channel |-> channel,
     content |-> content]

\* the three tables as one value, for the operators that thread the store
Store(cs, ds, ms) == [contacts |-> cs, deals |-> ds, messages |-> ms]

Cur == Store(contacts, deals, messages)

\* the insert does nothing when a row of that phone exists (a unique phone)
AddContact_unique_phone(S, c) ==
    IF \E i \in 1..Len(S.contacts) : S.contacts[i].phone = c.phone
    THEN S
    ELSE [S EXCEPT !.contacts = Append(@, c)]

\* session.add(row); session.commit(); session.refresh(row): the new id
AddContact(S, c) == [S EXCEPT !.contacts = Append(@, c)]

AddDeal(S, d) == [S EXCEPT !.deals = Append(@, d)]

AddMessage(S, m) == [S EXCEPT !.messages = Append(@, m)]

\* session.get(Deal, deal_id)
HasDeal(S, deal_id) == deal_id \in 1..Len(S.deals)

\* the "MAJ meta deal" block: deal.last_message_* = ...
TouchDeal(S, deal_id, text, t) ==
    [S EXCEPT !.deals[deal_id].last_message_preview = Take(text, PreviewLen),
              !.deals[deal_id].last_message_channel = "WhatsApp",
              !.deals[deal_id].last_message_at = t]

\* --------------------------------------------------------------- requests
\* what the last request was and how it was answered
Answer(op, code, ok) == [op |-> op, code |-> code, ok |-> ok]

\* datetime.now(timezone.utc) while a request is served: the clock has moved
\* on since the request came in
Clock == {now + 1}

Commit(S, t, answer) ==
    /\ served < MaxServed
    /\ served' = served + 1
    /\ contacts' = S.contacts
    /\ deals' = S.deals
    /\ messages' = S.messages
    /\ now' = t
    /\ last' = answer
    /\ UNCHANGED <<wa_configured, req, schema>>

\* form bodies of POST /contacts/new and POST /contacts/{id}/edit
Form(type, name, phone, email, company, address, tags) ==
    [type |-> type, name |-> name, phone |-> phone, email |-> email,
     company |-> company, address |-> address, tags |-> tags]

Forms ==
    { Form(ContactType_CLIENT, <<Run(" ", 1), Run("A", 1), Run(" ", 1)>>,
           <<Run(" ", 1), Run("+", 1), Run("1", 1)>>, "", "", "", ""),
      Form(ContactType_PROSPECT, Lit("B"), Lit(" "),
           "b@example.org", "B SARL", "1 rue B", "vip") }

\* ======================================================= POST /contacts/new
ContactFromForm(f) ==
    Contact(f.type, Strip(f.name), Strip(f.phone), OrNone(f.email),
            OrNone(f.company), OrNone(f.address), OrNone(f.tags))

DefaultDeal(contact_id) == Deal("Nouvelle affaire", contact_id, DealStatus_NEW)

\* the Deal is given the row count read before the Contact was inserted
contacts_create_store_stale_id(S, f) ==
    AddDeal(AddContact(S, ContactFromForm(f)), DefaultDeal(Len(S.contacts)))

contacts_create_store(S, f) ==
    LET S1 == AddContact(S, ContactFromForm(f))
    IN  AddDeal(S1, DefaultDeal(Len(S1.contacts)))

contacts_create_call(f, t) ==
    Commit(contacts_create_store(Cur, f), t,
           Answer("contacts_create", 303, TRUE))

contacts_create == \E f \in Forms, t \in Clock : contacts_create_call(f, t)

\* ================================================ POST /contacts/{id}/edit
contacts_update_store(S, contact_id, f) ==
    [S EXCEPT !.contacts[contact_id] = ContactFromForm(f)]

contacts_update_call(contact_id, f, t) ==
    IF contact_id \in 1..Len(contacts)
    THEN Commit(contacts_update_store(Cur, contact_id, f), t,
                Answer("contacts_update", 303, TRUE))
    ELSE Commit(Cur, t, Answer("contacts_update", 404, FALSE))

contacts_update ==
    \E contact_id \in 1..(Len(contacts) + 1), f \in Forms, t \in Clock :
        contacts_update_call(contact_id, f, t)

\* ================================================= POST /deals/{id}/status
StatusInputs == StatusSet \cup {"not_a_status"}

update_deal_status_code(S, deal_id, status, is_ajax) ==
    IF status \notin StatusSet THEN 400
    ELSE IF ~HasDeal(S, deal_id) THEN 404
    ELSE IF is_ajax THEN 200
    ELSE 303

\* the status is written before it is validated
update_deal_status_store_unchecked(S, deal_id, status) ==
    IF HasDeal(S, deal_id)
    THEN [S EXCEPT !.deals[deal_id].status = status]
    ELSE S

update_deal_status_store(S, deal_id, status) ==
    IF status \in StatusSet /\ HasDeal(S, deal_id)
    THEN [S EXCEPT !.deals[deal_id].status = status]
    ELSE S

update_deal_status_call(deal_id, status, is_ajax, t) ==
    Commit(update_deal_status_store(Cur, deal_id, status), t,
           Answer("update_deal_status",
                  update_deal_status_code(Cur, deal_id, status, is_ajax),
                  update_deal_status_code(Cur, deal_id, status, is_ajax)
                      \in {200, 303}))

update_deal_status ==
    \E deal_id \in 1..(Len(deals) + 1), status \in StatusInputs,
       is_ajax \in BOOLEAN, t \in Clock :
        update_deal_status_call(deal_id, status, is_ajax, t)

\* =========================================== POST /deals/{id}/send_message
\* wa_send_text: what the call can come to
WaOutcomes ==
    IF ~wa_configured THEN {"unconfigured"}
    ELSE {"sent", "http_error", "raised"}

Contents ==
    { Lit(" "),
      <<Run(" ", 1), Run("h", 1), Run(" ", 1)>>,
      Rep("a", PreviewLen + 1) }

\* the response before wa_send_text is called, or 0 when it is called
send_early_code(S, deal_id, content) ==
    IF Strip(content) = Empty THEN 400
    ELSE IF ~HasDeal(S, deal_id) THEN 404
    ELSE IF S.deals[deal_id].contact_id \notin 1..Len(S.contacts) THEN 404
    ELSE IF ~Truthy(S.contacts[S.deals[deal_id].contact_id].phone) THEN 404
    ELSE 0

send_code(S, deal_id, content, outcome) ==
    IF send_early_code(S, deal_id, content) # 0
    THEN send_early_code(S, deal_id, content)
    ELSE IF outcome = "raised" THEN 500
    ELSE 303

send_store(S, deal_id, content, outcome, t) ==
    IF send_code(S, deal_id, content, outcome) = 303
    THEN TouchDeal(AddMessage(S, Message(deal_id, MessageDirection_OUTBOUND,
                                         Strip(content), "WhatsApp")),
                   deal_id, Strip(content), t)
    ELSE S

send_call(deal_id, content, outcome, t) ==
    Commit(send_store(Cur, deal_id, content, outcome, t), t,
           Answer("send_whatsapp_message",
                  send_code(Cur, deal_id, content, outcome),
                  send_code(Cur, deal_id, content, outcome) = 303))

send_whatsapp_message ==
    \E deal_id \in 1..(Len(deals) + 1), content \in Contents,
       outcome \in WaOutcomes, t \in Clock :
        send_call(deal_id, content, outcome, t)

\* ================================================== POST /webhook/whatsapp
\* an entry or change that is not a JSON object: .get raises AttributeError
BadShape == [shape |-> "string"]

IsObject(x) == x.shape = "object"

\* from_msisdn, with the "+" put in front
NormalizeFrom(m) ==
    IF Truthy(m.from) /\ ~StartsWith(m.from, "+")
    THEN Concat(Lit("+"), m.from)
    ELSE m.from

\* text_body
TextBody(m) ==
    IF m.type = "text" /\ m.body # NoStr THEN m.body ELSE Empty

\* profile_name of a change
ProfileName(change) ==
    IF change.value.contacts # << >> THEN change.value.contacts[1] ELSE NoStr

\* the lookup never matches
FindContacts_none(S, phone) == {}

\* select(Contact).where(Contact.phone == from_msisdn): the matching rows.
\* phone == None compiles to IS NULL, and the column is NOT NULL.

FindContacts(S, phone) ==
    IF phone = NoStr THEN {}
    ELSE {i \in 1..Len(S.contacts) : S.contacts[i].phone = phone}

WebhookContact(phone, profile_name) ==
    Contact(ContactType_CLIENT,
            IF Truthy(profile_name) THEN profile_name ELSE phone,
            phone, None, None, None, "Whatsapp")

\* contact.name and contact.phone are NOT NULL: commit raises IntegrityError
InsertRaises(c) == c.name = NoStr \/ c.phone = NoStr

\* select(Deal).where(contact_id == ..).order_by(Deal.id.desc()).first(),
\* 0 for no row
LatestDeal(S, contact_id) ==
    LET own == {i \in 1..Len(S.deals) : S.deals[i].contact_id = contact_id}
    IN  IF own = {} THEN 0 ELSE CHOOSE i \in own : \A j \in own : j <= i

WebhookDeal(contact_id) ==
    Deal("Conversation WhatsApp", contact_id, DealStatus_NEW)

\* a closed deal stays closed
RecordInbound_keeps_status(S, deal_id, text_body, t) ==
    TouchDeal(IF text_body # Empty
              THEN AddMessage(S, Message(deal_id, MessageDirection_INBOUND,
                                         Take(text_body, ContentLen),
                                         "WhatsApp"))
              ELSE S,
              deal_id, text_body, t)

\* "Enregistre le message entrant" and "MAJ meta deal", then commit
RecordInbound(S, deal_id, text_body, t) ==
    LET S1 == IF text_body # Empty
              THEN AddMessage(S, Message(deal_id, MessageDirection_INBOUND,
                                         Take(text_body, ContentLen),
                                         "WhatsApp"))
              ELSE S
        S2 == TouchDeal(S1, deal_id, text_body, t)
    IN  [S2 EXCEPT !.deals[deal_id].status =
                       IF @ = DealStatus_CLOSED THEN DealStatus_NEW ELSE @]

\* "Upsert Deal" and what follows, for the contact found or made
UpsertDeal(S, contact_id, text_body, t) ==
    IF LatestDeal(S, contact_id) = 0
    THEN RecordInbound(AddDeal(S, WebhookDeal(contact_id)),
                       Len(S.deals) + 1, text_body, t)
    ELSE RecordInbound(S, LatestDeal(S, contact_id), text_body, t)

Outcome(S, raised) == [S |-> S, raised |-> raised]

\* the new contact's id is read before commit and refresh: it is still unset
ProcessMessage_no_refresh(S, m, profile_name, t) ==
    LET phone == NormalizeFrom(m)
        found == FindContacts(S, phone)
        c     == WebhookContact(phone, profile_name)
    IN  IF found # {}
        THEN {Outcome(UpsertDeal(S, cid, TextBody(m), t), FALSE) : cid \in found}
        ELSE IF InsertRaises(c)
        THEN {Outcome(S, TRUE)}
        ELSE {Outcome(UpsertDeal(AddContact(S, c), 0, TextBody(m), t), FALSE)}

\* the body of "for m in messages".  .first() has no ORDER BY: with several
\* rows of that phone the database may return any of them.
ProcessMessage(S, m, profile_name, t) ==
    LET phone == NormalizeFrom(m)
        found == FindContacts(S, phone)
        c     == WebhookContact(phone, profile_name)
    IN  IF found # {}
        THEN {Outcome(UpsertDeal(S, cid, TextBody(m), t), FALSE) : cid \in found}
        ELSE IF InsertRaises(c)
        THEN {Outcome(S, TRUE)}
        ELSE {Outcome(UpsertDeal(AddContact(S, c), Len(S.contacts) + 1,
                                 TextBody(m), t), FALSE)}

\* for m in messages: an exception leaves the loops
RECURSIVE ProcessMessages(_, _, _, _)
ProcessMessages(S, msgs, profile_name, t) ==
    IF msgs = << >> THEN {Outcome(S, FALSE)}
    ELSE UNION { IF o.raised THEN {o}
                 ELSE ProcessMessages(o.S, Tail(msgs), profile_name, t) :
                 o \in ProcessMessage(S, Head(msgs), profile_name, t) }

\* for change in entry.get("changes", [])
RECURSIVE ProcessChanges(_, _, _)
ProcessChanges(S, changes, t) ==
    IF changes = << >> THEN {Outcome(S, FALSE)}
    ELSE IF ~IsObject(Head(changes)) THEN {Outcome(S, TRUE)}
    ELSE UNION { IF o.raised THEN {o}
                 ELSE ProcessChanges(o.S, Tail(changes), t) :
                 o \in ProcessMessages(S, Head(changes).value.messages,
                                       ProfileName(Head(changes)), t) }

\* for entry in payload.get("entry", [])
RECURSIVE ProcessEntries(_, _, _)
ProcessEntries(S, entries, t) ==
    IF entries = << >> THEN {Outcome(S, FALSE)}
    ELSE IF ~IsObject(Head(entries)) THEN {Outcome(S, TRUE)}
    ELSE UNION { IF o.raised THEN {o}
                 ELSE ProcessEntries(o.S, Tail(entries), t) :
                 o \in ProcessChanges(S, Head(entries).changes, t) }

\* try: ... return {"ok": True}  except Exception: return {"ok": False}, 200
\* no try/except around the loops
webhook_code_unhandled(o) == IF o.raised THEN 500 ELSE 200

webhook_code(o) == 200

webhook_ok(o) == ~o.raised

\* ---- payloads
InMsg(from, type, body) == [from |-> from, type |-> type, body |-> body]

Froms == {NoStr, Lit("1"), <<Run("+", 1), Run("1", 1)>>}

Msgs ==
    {InMsg(f, "text", Lit("h")) : f \in Froms}
    \cup {InMsg(f, "text", Rep("a", ContentLen + 1)) : f \in Froms}
    \cup {InMsg(f, "image", NoStr) : f \in Froms}

Change(meta, msgs) ==
    [shape |-> "object", value |-> [contacts |-> meta, messages |-> msgs]]

Entry(changes) == [shape |-> "object", changes |-> changes]

Payload(entries) == [entry |-> entries]

Metas == {<< >>, <<Lit("N")>>}

Hello == InMsg(Lit("1"), "text", Lit("h"))

Payloads ==
    {Payload(<< >>)}
    \cup {Payload(<<Entry(<<Change(cm, <<m>>)>>)>>) : cm \in Metas, m \in Msgs}
    \cup {Payload(<<Entry(<<Change(<< >>, <<m, Hello>>)>>)>>) : m \in Msgs}
    \cup {Payload(<<Entry(<<Change(<< >>, <<Hello>>),
                            Change(<< >>, <<Hello>>)>>)>>),
          Payload(<<Entry(<<Change(<< >>, <<Hello>>)>>),
                    Entry(<<Change(<< >>, <<Hello>>)>>)>>),
          Payload(<<Entry(<<Change(<< >>,
                                   <<Hello, InMsg(NoStr, "text", Lit("h"))>>)>>)>>),
          Payload(<<Entry(<<BadShape, Change(<< >>, <<Hello>>)>>)>>),
          Payload(<<BadShape, Entry(<<Change(<< >>, <<Hello>>)>>)>>)}

webhook_call(payload, t, o) ==
    Commit(o.S, t, Answer("whatsapp_webhook", webhook_code(o), webhook_ok(o)))

whatsapp_webhook ==
    /\ served < MaxServed
    /\ \E payload \in Payloads, t \in Clock :
          \E o \in ProcessEntries(Cur, payload.entry, t) :
              webhook_call(payload, t, o)

\* ------------------------------------------------------------- schema
\* schema is the database as the startup code sees it: the backend and, for
\* the tables contact and deal, each column's declaration.  In the startup
\* specification a row is a function from the table's columns to values.
SqlNull == "NULL"

Decl(type, notnull, default) ==
    [type |-> type, notnull |-> notnull, default |-> default]

\* a column made by SQLModel.metadata.create_all or by an earlier version
Created == Decl("created", FALSE, SqlNull)

Drivers == {"sqlite", "postgresql"}

Migration(table, column, sqlite, pg) ==
    [table |-> table, column |-> column, sqlite |-> sqlite, pg |-> pg]

\* the calls of _add_column_if_missing, in order
Migrations ==
    << Migration("contact", "type", Decl("TEXT", TRUE, "client"),
                                    Decl("VARCHAR", TRUE, "client")),
       Migration("contact", "email", Decl("TEXT", FALSE, SqlNull),
                                     Decl("VARCHAR", FALSE, SqlNull)),
       Migration("contact", "company", Decl("TEXT", FALSE, SqlNull),
                                       Decl("VARCHAR", FALSE, SqlNull)),
       Migration("contact", "address", Decl("TEXT", FALSE, SqlNull),
                                       Decl("VARCHAR", FALSE, SqlNull)),
       Migration("contact", "tags", Decl("TEXT", FALSE, SqlNull),
                                    Decl("VARCHAR", FALSE, SqlNull)),
       Migration("deal", "status", Decl("TEXT", TRUE, "new"),
                                   Decl("VARCHAR", TRUE, "new")),
       Migration("deal", "amount_estimated",
                 Decl("REAL", FALSE, SqlNull),
                 Decl("DOUBLE PRECISION", FALSE, SqlNull)),
       Migration("deal", "last_message_preview",
                 Decl("TEXT", FALSE, SqlNull), Decl("TEXT", FALSE, SqlNull)),
       Migration("deal", "last_message_channel",
                 Decl("TEXT", FALSE, SqlNull), Decl("VARCHAR", FALSE, SqlNull)),
       Migration("deal", "last_message_at",
                 Decl("TIMESTAMP", FALSE, SqlNull),
                 Decl("TIMESTAMP", FALSE, SqlNull)) >>

MigratedColumns(table) ==
    {Migrations[i].column : i \in {j \in 1..Len(Migrations) :
                                       Migrations[j].table = table}}

BaseColumns(table) ==
    IF table = "contact" THEN {"id", "name", "phone"}
    ELSE {"id", "title", "contact_id"}

\* the tables as create_all makes them on an empty database
ModelSchema ==
    [driver |-> "sqlite",
     contact |-> [c \in BaseColumns("contact") \cup MigratedColumns("contact")
                    |-> Created],
     deal |-> [c \in BaseColumns("deal") \cup MigratedColumns("deal")
                    |-> Created]]

\* the position of the startup code: which start of the application this is
\* and which statement of _run_light_migrations is next
Startup(run, step) == [run |-> run, step |-> step]

Rows(table) == IF table = "contact" THEN contacts ELSE deals

\* _column_exists
ColumnExists(table, column) == column \in DOMAIN schema[table]

\* ALTER TABLE <table> ADD COLUMN <column> <decl>, on a table without it:
\* the rows there take the column's default
AddColumnSchema(table, column, decl) ==
    [schema EXCEPT ![table] =
        [c \in DOMAIN schema[table] \cup {column} |->
            IF c = column THEN decl ELSE schema[table][c]]]

AddColumnRows(rows, column, decl) ==
    [i \in 1..Len(rows) |->
        [c \in DOMAIN rows[i] \cup {column} |->
            IF c = column THEN decl.default ELSE rows[i][c]]]

\* UPDATE <table> SET <column> = <value> WHERE <column> IS NULL
FillNulls_skipped(rows, column, value) == rows

FillNulls(rows, column, value) ==
    [i \in 1..Len(rows) |->
        [rows[i] EXCEPT ![column] = IF @ = SqlNull THEN value ELSE @]]

\* one call of _add_column_if_missing
add_column_if_missing ==
    /\ req.run <= MaxStartups
    /\ req.step \in 1..Len(Migrations)
    /\ LET m == Migrations[req.step]
           ddl == IF schema.driver = "postgresql" THEN m.pg ELSE m.sqlite
       IN  IF ColumnExists(m.table, m.column)
           THEN UNCHANGED <<contacts, deals, schema>>
           ELSE /\ schema' = AddColumnSchema(m.table, m.column, ddl)
                /\ contacts' = IF m.table = "contact"
                               THEN AddColumnRows(contacts, m.column, ddl)
                               ELSE contacts
                /\ deals' = IF m.table = "deal"
                            THEN AddColumnRows(deals, m.column, ddl)
                            ELSE deals
    /\ req' = Startup(req.run, req.step + 1)
    /\ UNCHANGED <<messages, now, wa_configured, last, served>>

\* the two UPDATE statements that end _run_light_migrations; the application
\* is then up, until it is started again
fill_nulls ==
    /\ req.run <= MaxStartups
    /\ req.step = Len(Migrations) + 1
    /\ contacts' = FillNulls(contacts, "type", ContactType_CLIENT)
    /\ deals' = FillNulls(deals, "status", DealStatus_NEW)
    /\ req' = Startup(req.run + 1, 1)
    /\ UNCHANGED <<messages, now, wa_configured, last, served, schema>>

\* a database left by an earlier version of the application: any of the
\* migrated columns may be there already, and each table has one row
LegacySchemas ==
    {[driver |-> d,
      contact |-> [c \in BaseColumns("contact") \cup cc |-> Created],
      deal |-> [c \in BaseColumns("deal") \cup dc |-> Created]] :
        d \in Drivers,
        cc \in SUBSET MigratedColumns("contact"),
        dc \in SUBSET MigratedColumns("deal")}

LegacyRows(columns, column, values) ==
    {<<[c \in columns |-> IF c = column THEN v ELSE "x"]>> : v \in values}

InitMigrate ==
    /\ schema \in LegacySchemas
    /\ contacts \in LegacyRows(DOMAIN schema.contact, "type",
                               {SqlNull, ContactType_CLIENT, ContactType_PROSPECT})
    /\ deals \in LegacyRows(DOMAIN schema.deal, "status",
                            {SqlNull, DealStatus_NEW, DealStatus_CLOSED})
    /\ messages = << >>
    /\ now = 0
    /\ wa_configured = FALSE
    /\ last = Answer("startup", 0, TRUE)
    /\ served = 0
    /\ req = Startup(1, 1)

NextMigrate ==
    \/ add_column_if_missing
    \/ fill_nulls

SpecMigrate == InitMigrate /\ [][NextMigrate]_vars

\* ------------------------------------------------------------ sequential
Init ==
    /\ contacts = << >>
    /\ deals = << >>
    /\ messages = << >>
    /\ now = 0
    /\ wa_configured \in BOOLEAN
    /\ last = Answer("startup", 0, TRUE)
    /\ served = 0
    /\ req = << >>
    /\ schema = ModelSchema

Next ==
    \/ contacts_create
    \/ contacts_update
    \/ update_deal_status
    \/ send_whatsapp_message
    \/ whatsapp_webhook

Spec == Init /\ [][Next]_vars

\* ------------------------------------------------- concurrent webhooks
\* Two requests to POST /webhook/whatsapp served at once (two workers on one
\* database).  Each carries one message; a step is one statement that reaches
\* the database, and a commit makes its rows visible to the other request.
Workers == {1, 2}

Idle == [pc |-> "idle", m |-> InMsg(NoStr, "none", NoStr), profile_name |-> NoStr,
         contact |-> 0, deal |-> 0, inserted |-> FALSE]

RacePayloads ==
    {Payload(<<Entry(<<Change(<< >>, <<InMsg(f, "text", Lit("h"))>>)>>)>>) :
         f \in Froms}
    \cup {Payload(<<Entry(<<Change(<<Lit("N")>>,
                                   <<InMsg(Lit("1"), "image", NoStr)>>)>>)>>)}

\* the request comes in: payload parsed, the loops reach their one message
race_receive(w) ==
    /\ req[w].pc = "idle"
    /\ served < MaxServed
    /\ \E p \in RacePayloads :
          req' = [req EXCEPT ![w] =
                    [pc |-> "find_contact",
                     m |-> p.entry[1].changes[1].value.messages[1],
                     profile_name |-> ProfileName(p.entry[1].changes[1]),
                     contact |-> 0, deal |-> 0, inserted |-> FALSE]]
    /\ served' = served + 1
    /\ UNCHANGED <<contacts, deals, messages, now, wa_configured, schema, last>>

\* contact = session.exec(select(Contact).where(...)).first()
race_find_contact(w) ==
    /\ req[w].pc = "find_contact"
    /\ LET found == FindContacts(Cur, NormalizeFrom(req[w].m))
       IN  IF found = {}
           THEN req' = [req EXCEPT ![w].pc = "insert_contact"]
           ELSE \E cid \in found :
                   req' = [req EXCEPT ![w].pc = "find_deal", ![w].contact = cid]
    /\ UNCHANGED <<contacts, deals, messages, now, wa_configured, schema, last, served>>

\* session.add(contact); session.commit(); session.refresh(contact)
race_insert_contact(w) ==
    /\ req[w].pc = "insert_contact"
    /\ LET c == WebhookContact(NormalizeFrom(req[w].m), req[w].profile_name)
       IN  IF InsertRaises(c)
           THEN /\ req' = [req EXCEPT ![w].pc = "idle"]
                /\ last' = Answer("whatsapp_webhook",
                                  webhook_code(Outcome(Cur, TRUE)), FALSE)
                /\ UNCHANGED contacts
           ELSE /\ contacts' = AddContact(Cur, c).contacts
                /\ req' = [req EXCEPT ![w].pc = "find_deal",
                                      ![w].contact = Len(contacts) + 1,
                                      ![w].inserted = TRUE]
                /\ UNCHANGED last
    /\ UNCHANGED <<deals, messages, now, wa_configured, schema, served>>

\* deal = session.exec(select(Deal)...order_by(Deal.id.desc())).first()
race_find_deal(w) ==
    /\ req[w].pc = "find_deal"
    /\ IF LatestDeal(Cur, req[w].contact) = 0
       THEN req' = [req EXCEPT ![w].pc = "insert_deal"]
       ELSE req' = [req EXCEPT ![w].pc = "record",
                               ![w].deal = LatestDeal(Cur, req[w].contact)]
    /\ UNCHANGED <<contacts, deals, messages, now, wa_configured, schema, last, served>>

\* session.add(deal); session.commit(); session.refresh(deal)
race_insert_deal(w) ==
    /\ req[w].pc = "insert_deal"
    /\ deals' = AddDeal(Cur, WebhookDeal(req[w].contact)).deals
    /\ req' = [req EXCEPT ![w].pc = "record", ![w].deal = Len(deals) + 1]
    /\ UNCHANGED <<contacts, messages, now, wa_configured, schema, last, served>>

\* the message, the deal's summary, commit, and the response.  (No request
\* of this specification sets a status, so the status the deal was loaded
\* with is the one in the store.)
race_record(w) ==
    /\ req[w].pc = "record"
    /\ \E t \in Clock :
          LET S == RecordInbound(Cur, req[w].deal, TextBody(req[w].m), t)
          IN  /\ deals' = S.deals
              /\ messages' = S.messages
              /\ now' = t
              /\ last' = Answer("whatsapp_webhook",
                                webhook_code(Outcome(S, FALSE)), TRUE)
    /\ req' = [req EXCEPT ![w].pc = "idle"]
    /\ UNCHANGED <<contacts, wa_configured, schema, served>>

InitRace ==
    /\ contacts = << >>
    /\ deals = << >>
    /\ messages = << >>
    /\ now = 0
    /\ wa_configured \in BOOLEAN
    /\ last = Answer("startup", 0, TRUE)
    /\ served = 0
    /\ req = [w \in Workers |-> Idle]
    /\ schema = ModelSchema

NextRace ==
    \E w \in Workers :
        \/ race_receive(w)
        \/ race_find_contact(w)
        \/ race_insert_contact(w)
        \/ race_find_deal(w)
        \/ race_insert_deal(w)
        \/ race_record(w)

SpecRace == InitRace /\ [][NextRace]_vars

\* ------------------------------------------------- redelivered webhook
\* The provider delivers one payload to POST /webhook/whatsapp and, after the
\* answer, delivers the same payload again.  req keeps the payloads delivered
\* so far.  The sender's number is one no contact form of Forms carries.
RedeliveryFroms == {Lit("2"), <<Run("+", 1), Run("2", 1)>>}

RedeliveryPayloads ==
    {Payload(<<Entry(<<Change(cm, <<InMsg(f, ty, Lit("h"))>>)>>)>>) :
         cm \in Metas, f \in RedeliveryFroms, ty \in {"text", "image"}}
    \cup {Payload(<<Entry(<<Change(<< >>,
              <<InMsg(f, "text", Lit("h")), InMsg(f, "text", Lit("h"))>>)>>)>>) :
              f \in RedeliveryFroms}

deliver(payload, t, o) ==
    /\ served < MaxServed
    /\ served' = served + 1
    /\ contacts' = o.S.contacts
    /\ deals' = o.S.deals
    /\ messages' = o.S.messages
    /\ now' = t
    /\ last' = Answer("whatsapp_webhook", webhook_code(o), webhook_ok(o))
    /\ req' = Append(req, payload)
    /\ UNCHANGED <<wa_configured, schema>>

first_delivery ==
    /\ req = << >>
    /\ \E payload \in RedeliveryPayloads, t \in Clock :
          \E o \in ProcessEntries(Cur, payload.entry, t) :
              deliver(payload, t, o)

redelivery ==
    /\ Len(req) = 1
    /\ \E t \in Clock :
          \E o \in ProcessEntries(Cur, req[1].entry, t) :
              deliver(req[1], t, o)

NextRedelivery ==
    \/ contacts_create
    \/ update_deal_status
    \/ first_delivery
    \/ redelivery

SpecRedelivery == Init /\ [][NextRedelivery]_vars

\* ------------------------------------------------------------------ claims
\* rows 1..n of a table are what they were
KeptRows(old, new) == Len(new) >= Len(old) /\ SubSeq(new, 1, Len(old)) = old

\* C1: every POST /contacts/new adds exactly one Contact and exactly one Deal;
\* the Deal has status "new" and contact_id = the id of the new Contact; no
\* other Contact, Deal or Message row changes.
C1_ContactsCreate ==
    [][\A f \in Forms, t \in Clock :
         contacts_create_call(f, t) =>
            /\ Len(contacts') = Len(contacts) + 1
            /\ Len(deals') = Len(deals) + 1
            /\ KeptRows(contacts, contacts')
            /\ KeptRows(deals, deals')
            /\ messages' = messages
            /\ deals'[Len(deals')].status = "new"
            /\ deals'[Len(deals')].contact_id = Len(contacts')
            /\ contacts'[Len(contacts')].name = Strip(f.name)
            /\ contacts'[Len(contacts')].phone = Strip(f.phone)]_vars

\* a contact was created by the form while other rows of all three tables exist
C1_Witness ==
    /\ last.op = "contacts_create"
    /\ Len(contacts) >= 2
    /\ Len(deals) >= 2
    /\ messages # << >>
    /\ deals[Len(deals)].title = "Nouvelle affaire"

\* a deal row with its status column set aside
SansStatus(d) == [d EXCEPT !.status = "-"]

\* C2: POST /deals/{id}/status with a known status on an existing deal
\* leaves that deal with exactly that status (and nothing else changed); an
\* unknown status is answered 400 and no deal changes; a known status for an
\* identifier of no deal is answered 404 and the store is unchanged.
C2_UpdateDealStatus ==
    [][\A deal_id \in 1..(Len(deals) + 1), status \in StatusInputs,
          is_ajax \in BOOLEAN, t \in Clock :
         update_deal_status_call(deal_id, status, is_ajax, t) =>
            /\ (status \in StatusSet /\ deal_id \in 1..Len(deals)) =>
                  /\ last'.code \in {200, 303}
                  /\ Len(deals') = Len(deals)
                  /\ deals'[deal_id].status = status
                  /\ SansStatus(deals'[deal_id]) = SansStatus(deals[deal_id])
                  /\ \A d \in 1..Len(deals) : d # deal_id => deals'[d] = deals[d]
                  /\ contacts' = contacts /\ messages' = messages
            /\ status \notin StatusSet =>
                  last'.code = 400 /\ store' = store
            /\ (status \in StatusSet /\ deal_id \notin 1..Len(deals)) =>
                  last'.code = 404 /\ store' = store]_vars

\* a status update moved one of two deals to "scheduled"
C2_Witness ==
    /\ last.op = "update_deal_status"
    /\ last.code = 200
    /\ Len(deals) >= 2
    /\ \E d \in 1..Len(deals) : deals[d].status = "scheduled"

\* the deal exists and its contact has a phone
Reachable(deal_id) ==
    /\ deal_id \in 1..Len(deals)
    /\ deals[deal_id].contact_id \in 1..Len(contacts)
    /\ Truthy(contacts[deals[deal_id].contact_id].phone)

\* C3: every POST /deals/{id}/send_message with content that is not empty
\* (once stripped, as the handler reads it), for an existing deal whose
\* contact has a phone, appends exactly one Message with direction "out" and
\* that deal's id, and leaves the deal with last_message_preview = the first
\* 200 characters of the content sent, last_message_channel = "WhatsApp" and
\* last_message_at not before the time the call started.
C3_SendRecordsMessage ==
    [][\A deal_id \in 1..(Len(deals) + 1), content \in Contents,
          outcome \in WaOutcomes, t \in Clock :
         (send_call(deal_id, content, outcome, t)
            /\ Strip(content) # Empty /\ Reachable(deal_id)) =>
            /\ Len(messages') = Len(messages) + 1
            /\ KeptRows(messages, messages')
            /\ messages'[Len(messages')].direction = "out"
            /\ messages'[Len(messages')].deal_id = deal_id
            /\ deals'[deal_id].last_message_preview
                   = Take(Strip(content), 200)
            /\ deals'[deal_id].last_message_channel = "WhatsApp"
            /\ deals'[deal_id].last_message_at >= now]_vars

\* C4: whatever wa_send_text comes to (sent, API not configured, HTTP status
\* >= 400, an exception of the HTTP client), send_whatsapp_message for an
\* existing deal and non-empty content ends with the outbound Message
\* committed.
C4_PersistedWhateverTheOutcome ==
    [][\A deal_id \in 1..(Len(deals) + 1), content \in Contents,
          outcome \in {"sent", "unconfigured", "http_error", "raised"},
          t \in Clock :
         (send_call(deal_id, content, outcome, t)
            /\ outcome \in WaOutcomes
            /\ Strip(content) # Empty /\ Reachable(deal_id)) =>
            \E i \in (Len(messages) + 1)..Len(messages') :
                /\ messages'[i].direction = "out"
                /\ messages'[i].deal_id = deal_id
                /\ messages'[i].content = Strip(content)]_vars

\* a payload of one entry, one change, one message
OneMessage(payload) ==
    /\ Len(payload.entry) = 1
    /\ IsObject(payload.entry[1])
    /\ Len(payload.entry[1].changes) = 1
    /\ IsObject(payload.entry[1].changes[1])
    /\ Len(payload.entry[1].changes[1].value.messages) = 1

TheMessage(payload) == payload.entry[1].changes[1].value.messages[1]

\* the sender's number as the store keeps numbers: with a leading "+"
Sender(m) ==
    IF m.from = NoStr \/ m.from = Empty \/ m.from[1].c = "+" THEN m.from
    ELSE <<Run("+", 1)>> \o m.from

\* the contacts of that phone
Known(phone) == {i \in 1..Len(contacts) : contacts[i].phone = phone}

\* C5: a webhook payload of one text message whose sender's phone is that of
\* an existing Contact adds exactly one Message, with direction "in", on a
\* Deal of a contact of that phone, adds no Contact, and sets that Deal's
\* last_message_preview to the first 200 characters of the text.
C5_InboundFromKnownPhone ==
    [][last'.op = "whatsapp_webhook" =>
        \A payload \in {p \in Payloads :
                            /\ OneMessage(p)
                            /\ TextBody(TheMessage(p)) # Empty
                            /\ Known(Sender(TheMessage(p))) # {}}, t \in Clock :
          \A o \in ProcessEntries(Cur, payload.entry, t) :
            webhook_call(payload, t, o) =>
                /\ contacts' = contacts
                /\ Len(messages') = Len(messages) + 1
                /\ KeptRows(messages, messages')
                /\ LET msg == messages'[Len(messages')]
                   IN  /\ msg.direction = "in"
                       /\ msg.deal_id \in 1..Len(deals')
                       /\ deals'[msg.deal_id].contact_id
                              \in Known(Sender(TheMessage(payload)))
                       /\ deals'[msg.deal_id].last_message_preview
                              = Take(TextBody(TheMessage(payload)), 200)]_vars

\* the webhook put a long text on the deal of a contact made by the form
C5_Witness ==
    /\ last.op = "whatsapp_webhook"
    /\ last.ok
    /\ Len(contacts) = 1
    /\ contacts[1].tags = None
    /\ Len(messages) = 1
    /\ messages[1].direction = "in"
    /\ deals[messages[1].deal_id].contact_id = 1
    /\ deals[messages[1].deal_id].title = "Nouvelle affaire"
    /\ deals[messages[1].deal_id].last_message_preview = Rep("a", 200)

\* a message the handler can ingest: it has a sender and a text
WellFormed(m) == m.from # NoStr /\ TextBody(m) # Empty

RECURSIVE CountMessages(_)
CountMessages(msgs) ==
    IF msgs = << >> THEN 0
    ELSE (IF WellFormed(Head(msgs)) THEN 1 ELSE 0) + CountMessages(Tail(msgs))

RECURSIVE CountChanges(_)
CountChanges(changes) ==
    IF changes = << >> THEN 0
    ELSE (IF IsObject(Head(changes))
          THEN CountMessages(Head(changes).value.messages) ELSE 0)
         + CountChanges(Tail(changes))

RECURSIVE CountEntries(_)
CountEntries(entries) ==
    IF entries = << >> THEN 0
    ELSE (IF IsObject(Head(entries))
          THEN CountChanges(Head(entries).changes) ELSE 0)
         + CountEntries(Tail(entries))

\* C6: a malformed item of a webhook batch (a message with no "from", an
\* entry or change of the wrong shape) is skipped alone: every well-formed
\* message of the batch, those after the malformed item included, is
\* ingested as an inbound Message.
C6_MalformedSkippedPerMessage ==
    [][last'.op = "whatsapp_webhook" =>
        \A payload \in Payloads, t \in Clock :
          \A o \in ProcessEntries(Cur, payload.entry, t) :
            webhook_call(payload, t, o) =>
                /\ Len(messages') = Len(messages) + CountEntries(payload.entry)
                /\ \A i \in (Len(messages) + 1)..Len(messages') :
                       messages'[i].direction = "in"]_vars

\* C7: POST /webhook/whatsapp answers 200 with a JSON body for every payload:
\* an exception raised while the batch is processed is swallowed ("ok" false)
\* and never becomes another status.
C7_WebhookAlways200 ==
    last.op = "whatsapp_webhook" => last.code = 200 /\ last.ok \in BOOLEAN

\* an exception was swallowed after an earlier message had been committed
C7_Witness ==
    /\ last.op = "whatsapp_webhook"
    /\ ~last.ok
    /\ last.code = 200
    /\ served = 1
    /\ messages # << >>

\* the latest Message of a deal, 0 for none
LatestMessage(deal_id) ==
    LET own == {i \in 1..Len(messages) : messages[i].deal_id = deal_id}
    IN  IF own = {} THEN 0 ELSE CHOOSE i \in own : \A j \in own : j <= i

\* C8: after any sequence of requests, the summary of every Deal that has a
\* Message is that of its latest Message: last_message_preview = the first
\* 200 characters of its content, last_message_channel = its channel.
C8_SummaryOfLatestMessage ==
    \A d \in 1..Len(deals) :
        LatestMessage(d) # 0 =>
            /\ deals[d].last_message_preview
                   = Take(messages[LatestMessage(d)].content, 200)
            /\ deals[d].last_message_channel
                   = messages[LatestMessage(d)].channel

\* C9: in every reachable state every Deal's contact_id is the id of an
\* existing Contact and every Message's deal_id is the id of an existing Deal.
C9_ReferentialIntegrity ==
    /\ \A d \in 1..Len(deals) : deals[d].contact_id \in 1..Len(contacts)
    /\ \A i \in 1..Len(messages) : messages[i].deal_id \in 1..Len(deals)

\* two contacts, each with a deal, and messages on both deals
C9_Witness ==
    /\ Len(contacts) >= 2
    /\ \E i, j \in 1..Len(messages) :
           /\ deals[messages[i].deal_id].contact_id = 1
           /\ deals[messages[j].deal_id].contact_id = 2

\* the rows of that phone
RowsOfPhone(phone) == {i \in 1..Len(contacts) : contacts[i].phone = phone}

\* both requests found no Contact of the same phone and both inserted one
BothInserted(w1, w2) ==
    /\ w1 # w2
    /\ req[w1].inserted /\ req[w2].inserted
    /\ Sender(req[w1].m) = Sender(req[w2].m)

\* C10: when two concurrent webhook requests for the same unknown phone have
\* both looked the phone up before either inserted, both insert: the store
\* then holds two Contact rows of that phone (nothing makes the phone unique,
\* nothing locks the find-or-create).
C10_BothInsertTheContact ==
    \A w1 \in Workers, w2 \in Workers :
        BothInserted(w1, w2) =>
            Cardinality(RowsOfPhone(Sender(req[w1].m))) >= 2

\* the two requests have raced: two Contact rows of one phone
C10_Witness ==
    /\ BothInserted(1, 2)
    /\ \E i, j \in 1..Len(contacts) :
           i # j /\ contacts[i].phone = contacts[j].phone
    /\ req[1].pc = "idle" /\ req[2].pc = "idle"

\* the Contact rows of the sender of the payload delivered first
RowsOfDelivered == RowsOfPhone(Sender(TheMessage(req[1])))

\* C11: when one webhook payload from a phone that no Contact has is delivered
\* twice, the second delivery after the first has been answered, the second
\* delivery finds the Contact the first one inserted and inserts none: one
\* Contact row of that phone exists afterwards.
C11_RedeliveryFindsTheContact ==
    Len(req) = 2 => Cardinality(RowsOfDelivered) = 1

\* C11 as stated: after the two deliveries two Contact rows of that phone
\* exist.
C11_RedeliveryDuplicatesTheContact ==
    Len(req) = 2 => Cardinality(RowsOfDelivered) = 2

\* the same text payload was delivered twice and recorded twice, on the one
\* contact of the sender
C11_Witness ==
    /\ Len(req) = 2
    /\ req[1] = req[2]
    /\ Len(messages) = 2
    /\ Cardinality(RowsOfDelivered) = 1
    /\ last.ok

Tables == {"contact", "deal"}

\* every column of the table is still there, declared as it was, and every
\* row still holds the values it held
KeptColumns(table, rows, rows2) ==
    /\ \A c \in DOMAIN schema[table] :
           c \in DOMAIN schema'[table] /\ schema'[table][c] = schema[table][c]
    /\ Len(rows2) = Len(rows)
    /\ \A i \in 1..Len(rows) : \A c \in DOMAIN rows[i] :
           c \in DOMAIN rows2[i] /\ rows2[i][c] = rows[i][c]

NoNullTypeOrStatus(cs, ds) ==
    /\ \A i \in 1..Len(cs) : cs[i]["type"] # SqlNull
    /\ \A i \in 1..Len(ds) : ds[i]["status"] # SqlNull

\* C12: the startup migrations are additive and idempotent.  A call of
\* _add_column_if_missing adds its column exactly when the table lacks it and
\* keeps every existing column and every stored value; a second run of
\* _run_light_migrations changes neither the columns nor any row; and when a
\* run ends no contact row has a null type and no deal row a null status.
C12_MigrationsAdditiveIdempotent ==
    [][/\ req.step \in 1..Len(Migrations) =>
            LET m == Migrations[req.step]
            IN  /\ KeptColumns("contact", contacts, contacts')
                /\ KeptColumns("deal", deals, deals')
                /\ \A t \in Tables :
                       DOMAIN schema'[t] =
                           DOMAIN schema[t]
                               \cup (IF t = m.table THEN {m.column} ELSE {})
                /\ schema'.driver = schema.driver
                /\ m.column \in DOMAIN schema[m.table] =>
                       /\ schema' = schema
                       /\ contacts' = contacts
                       /\ deals' = deals
       /\ req.run >= 2 =>
            /\ schema' = schema
            /\ contacts' = contacts
            /\ deals' = deals
       /\ req'.run > req.run => NoNullTypeOrStatus(contacts', deals')]_vars

\* the application was started twice on a PostgreSQL database whose contact
\* table had neither type nor email and whose deal table had a status column:
\* type was added with its default, status was kept as it was declared
C12_Witness ==
    /\ req.run = 3
    /\ schema.driver = "postgresql"
    /\ schema.contact["type"] = Decl("VARCHAR", TRUE, "client")
    /\ schema.contact["email"] = Decl("VARCHAR", FALSE, SqlNull)
    /\ schema.deal["status"] = Created
    /\ contacts[1]["type"] = "client"
    /\ contacts[1]["email"] = SqlNull
    /\ contacts[1]["name"] = "x"
    /\ deals[1]["status"] = "new"

\* C13: in every reachable state every Deal's status is one of new, quote,
\* scheduled, closed: the handlers that create a Deal write "new", and
\* update_deal_status writes a status only after validating it.
C13_StatusIsEnumerated ==
    \A i \in 1..Len(deals) :
        deals[i].status \in {"new", "quote", "scheduled", "closed"}

\* an unknown status has just been refused for a deal that the webhook made
\* and a request moved to "closed": the deal is still closed
C13_Witness ==
    /\ last.op = "update_deal_status"
    /\ last.code = 400
    /\ Len(deals) = 1
    /\ deals[1].status = "closed"
    /\ deals[1].title = "Conversation WhatsApp"
    /\ served = 3

\* the most recent Deal of a contact (highest id), 0 for none
MostRecentDeal(contact_id) ==
    LET own == {i \in 1..Len(deals) : deals[i].contact_id = contact_id}
    IN  IF own = {} THEN 0 ELSE CHOOSE i \in own : \A j \in own : j <= i

Reopened(status) == IF status = "closed" THEN "new" ELSE status

\* C14: when the webhook ingests a message (text or not) of a known contact,
\* no Deal is created; the contact's most recent Deal goes from "closed" to
\* "new", keeps a status of new, quote or scheduled, and no other Deal's
\* status changes.
C14_ClosedDealReopened ==
    [][last'.op = "whatsapp_webhook" =>
        \A payload \in {p \in Payloads :
                            /\ OneMessage(p)
                            /\ Known(Sender(TheMessage(p))) # {}}, t \in Clock :
          \A o \in ProcessEntries(Cur, payload.entry, t) :
            webhook_call(payload, t, o) =>
                /\ Len(deals') = Len(deals)
                /\ \E c \in Known(Sender(TheMessage(payload))) :
                       /\ MostRecentDeal(c) # 0
                       /\ \A d \in 1..Len(deals) :
                              deals'[d].status =
                                  IF d = MostRecentDeal(c)
                                  THEN Reopened(deals[d].status)
                                  ELSE deals[d].status]_vars

\* a deal made by the form was closed and an inbound text then reopened it
C14_Witness ==
    /\ last.op = "whatsapp_webhook"
    /\ last.ok
    /\ served = 3
    /\ Len(contacts) = 1
    /\ Len(deals) = 1
    /\ deals[1].status = "new"
    /\ deals[1].title = "Nouvelle affaire"
    /\ deals[1].last_message_channel = "WhatsApp"
    /\ Len(messages) = 1
    /\ messages[1].direction = "in"

====
